---- MODULE Spec2Model ----
(***************************************************************************)
(* Model of src/src/pipe.rs: Pipe (a path to a Unix named pipe), Reader    *)
(* and Writer, together with the part of the operating system they act on: *)
(* the entry at the path, the FIFO object behind it and the regular file   *)
(* that a create-capable open can leave there.                             *)
(*                                                                         *)
(* Every call runs in a slot (a task or thread).  A call that makes more   *)
(* than one system call is split at the system calls, so that other slots  *)
(* interleave exactly where the kernel lets them.                          *)
(***************************************************************************)
EXTENDS Integers, Sequences, FiniteSets, TLC

\* ------------------------------------------------------------------ bounds
\* longest payload, in bytes for the byte variants and in characters for
\* the text variants
MaxLen == 2
\* capacity of the FIFO buffer in bytes (scaled down from the kernel's)
PipeCap == 1

\* ------------------------------------------------------------- vocabulary
\* tasks, as t1 and t2 of the tests, and one more for a third party
Slots == {"t1", "t2", "t3"}

\* kinds of entry at the path
Kinds == {"absent", "fifo", "file", "dir"}

\* byte values used in raw payloads: 'A', and the two bytes of U+00E9
Bytes == {65, 195, 169}
\* characters used in text payloads: 'A', U+00E9 and U+20AC
Chars == {65, 233, 8364}

SeqsUpTo(S, n) == UNION {[1..k -> S] : k \in 0..n}
ByteSeqs == SeqsUpTo(Bytes, MaxLen)
Strings == SeqsUpTo(Chars, MaxLen)

\* payloads of the calls of the lifecycle scenario, and the regular files
\* that scenario starts from
SmallBytes == {<<>>, <<195>>}
SmallStrings == {<<>>, <<233>>}

ConstructOps == {"new", "reader", "writer"}
EnsureOps == {"ensure_exists", "reader_pipe_exists", "writer_pipe_exists"}
ByteReadOps == {"read", "async_read"}
TextReadOps == {"string", "async_read_str"}
ReadOps == ByteReadOps \cup TextReadOps
ByteWriteOps == {"write", "async_write"}
TextWriteOps == {"write_str", "async_write_str"}
WriteOps == ByteWriteOps \cup TextWriteOps
BlockingWriteOps == {"write", "write_str"}
AsyncWriteOps == {"async_write", "async_write_str"}

VARIABLES
    fs,          \* kind of the entry at the path
    content,     \* bytes of the regular file at the path
    dirWritable, \* the parent directory exists and allows create and unlink
    readers,     \* read ends of the FIFO that are open or being opened
    writers,     \* write ends of the FIFO that are open or being opened
    buf,         \* bytes in the FIFO buffer
    cycle,       \* some write end of the FIFO has been opened and closed
    pc,          \* position of each slot in its call
    call,        \* the call a slot is in: name, argument, entry at its start
    fd,          \* what the slot's open file refers to
    woken,       \* a peer has entered open since the slot began to wait
    todo,        \* bytes the slot's write has still to hand over
    acc,         \* bytes the slot's read has accumulated
    res,         \* result of the slot's last returned call
    bg           \* the write a returned async call left in the background

vars == <<fs, content, dirWritable, readers, writers, buf, cycle,
          pc, call, fd, woken, todo, acc, res, bg>>

fsVars == <<fs, content, dirWritable>>
pipeVars == <<readers, writers, buf, cycle>>

NoCall == [name |-> "none", data |-> <<>>, pre |-> "none"]
NoBg == [fd |-> "none", todo |-> <<>>]
NoRes == [name |-> "none", data |-> <<>>, pre |-> "none", status |-> "none",
          err |-> "", val |-> <<>>, flag |-> FALSE, post |-> "none",
          prev |-> <<"none", "none", "none">>]

NewCall(n, d) == [name |-> n, data |-> d, pre |-> fs]

\* ----------------------------------------------------------- text encoding
\* String::as_bytes / str::as_bytes: the UTF-8 bytes of one character
EncodeChar(c) ==
    IF c < 128 THEN <<c>>
    ELSE IF c < 2048 THEN <<192 + (c \div 64), 128 + (c % 64)>>
    ELSE IF c < 65536
         THEN <<224 + (c \div 4096), 128 + ((c \div 64) % 64), 128 + (c % 64)>>
    ELSE <<240 + (c \div 262144), 128 + ((c \div 4096) % 64),
           128 + ((c \div 64) % 64), 128 + (c % 64)>>

RECURSIVE Utf8EncodeFrom(_, _)
Utf8EncodeFrom(s, i) ==
    IF i > Len(s) THEN <<>> ELSE EncodeChar(s[i]) \o Utf8EncodeFrom(s, i + 1)

\* a text encoder that keeps only the low byte of each character
Utf8EncodeLowByte(s) == [i \in 1..Len(s) |-> s[i] % 256]

\* the bytes a text payload is written as
Utf8Encode(s) == Utf8EncodeFrom(s, 1)

IsCont(b) == b >= 128 /\ b <= 191

\* number of bytes of the well-formed UTF-8 sequence that starts at b[i],
\* 0 when there is none
SeqWidth(b, i) ==
    LET n == Len(b)
        b1 == b[i]
        b2 == IF i + 1 <= n THEN b[i + 1] ELSE 0
        b3 == IF i + 2 <= n THEN b[i + 2] ELSE 0
        b4 == IF i + 3 <= n THEN b[i + 3] ELSE 0
    IN  IF b1 < 128 THEN 1
        ELSE IF b1 >= 194 /\ b1 <= 223
             THEN (IF IsCont(b2) THEN 2 ELSE 0)
        ELSE IF b1 >= 224 /\ b1 <= 239
             THEN (IF /\ IsCont(b2)
                      /\ (b1 = 224 => b2 >= 160)
                      /\ (b1 = 237 => b2 <= 159)
                      /\ IsCont(b3)
                   THEN 3 ELSE 0)
        ELSE IF b1 >= 240 /\ b1 <= 244
             THEN (IF /\ IsCont(b2)
                      /\ (b1 = 240 => b2 >= 144)
                      /\ (b1 = 244 => b2 <= 143)
                      /\ IsCont(b3)
                      /\ IsCont(b4)
                   THEN 4 ELSE 0)
        ELSE 0

\* the character of a well-formed sequence of w bytes at b[i]
DecodeChar(b, i, w) ==
    IF w = 1 THEN b[i]
    ELSE IF w = 2 THEN (b[i] - 192) * 64 + (b[i + 1] - 128)
    ELSE IF w = 3
         THEN (b[i] - 224) * 4096 + (b[i + 1] - 128) * 64 + (b[i + 2] - 128)
    ELSE (b[i] - 240) * 262144 + (b[i + 1] - 128) * 4096
         + (b[i + 2] - 128) * 64 + (b[i + 3] - 128)

RECURSIVE Utf8DecodeFrom(_, _)
Utf8DecodeFrom(b, i) ==
    IF i > Len(b) THEN [ok |-> TRUE, chars |-> <<>>]
    ELSE LET w == SeqWidth(b, i)
         IN  IF w = 0 THEN [ok |-> FALSE, chars |-> <<>>]
             ELSE LET rest == Utf8DecodeFrom(b, i + w)
                  IN  [ok |-> rest.ok,
                       chars |-> IF rest.ok
                                 THEN <<DecodeChar(b, i, w)>> \o rest.chars
                                 ELSE <<>>]

\* a text decoder that takes every byte for a character
Utf8DecodeLatin1(b) == [ok |-> TRUE, chars |-> b]

\* read_to_string: the text of the bytes read, or a decoding error
Utf8Decode(b) == Utf8DecodeFrom(b, 1)

\* the bytes a write call hands to the operating system
PayloadBytes(n, d) == IF n \in TextWriteOps THEN Utf8Encode(d) ELSE d

\* ------------------------------------------------------ results of a call
\* slot p returns from call c; the result remembers the call before it
Ret(p, c, status, err, val, flag, post) ==
    /\ res' = [res EXCEPT ![p] =
                 [name |-> c.name, data |-> c.data, pre |-> c.pre,
                  status |-> status, err |-> err, val |-> val, flag |-> flag,
                  post |-> post,
                  prev |-> <<res[p].name, res[p].status, res[p].pre>>]]
    /\ pc' = [pc EXCEPT ![p] = "idle"]
    /\ call' = [call EXCEPT ![p] = NoCall]

\* slot p goes on with call c at position at
Goto(p, c, at) ==
    /\ pc' = [pc EXCEPT ![p] = at]
    /\ call' = [call EXCEPT ![p] = c]
    /\ res' = res

\* --------------------------------------------------------------- Pipe
\* Pipe::exists
PathExists == fs # "absent"

\* an ensure_exists that creates without looking
NeedsCreateAlways == TRUE

\* an ensure_exists with the test the wrong way round
NeedsCreateInverted == fs # "absent"

\* Pipe::ensure_exists: the test that decides whether create_pipe is called
NeedsCreate == ~PathExists

\* a delete that unlinks without looking
NeedsRemoveAlways == TRUE

\* Pipe::delete: the test that decides whether remove_pipe is called
NeedsRemove == PathExists

\* Pipe::new, Pipe::reader, Pipe::writer: a path is stored or cloned
Construct(p, n) ==
    /\ pc[p] = "idle"
    /\ Ret(p, NewCall(n, <<>>), "Ok", "", <<>>, FALSE, fs)
    /\ UNCHANGED <<fsVars, pipeVars, fd, woken, todo, acc, bg>>

\* Pipe::exists, called by the program
Exists(p) ==
    /\ pc[p] = "idle"
    /\ Ret(p, NewCall("exists", <<>>), "Ok", "", <<>>, PathExists, fs)
    /\ UNCHANGED <<fsVars, pipeVars, fd, woken, todo, acc, bg>>

\* Pipe::ensure_exists, Reader::pipe_exists, Writer::pipe_exists, up to the
\* existence test
EnsureExists(p, n) ==
    /\ pc[p] = "idle"
    /\ IF NeedsCreate
       THEN Goto(p, NewCall(n, <<>>), "mkfifo")
       ELSE Ret(p, NewCall(n, <<>>), "Ok", "", <<>>, FALSE, fs)
    /\ UNCHANGED <<fsVars, pipeVars, fd, woken, todo, acc, bg>>

\* outcome of mkfifo(path, 0o660)
MkfifoResult ==
    IF fs # "absent" THEN "EEXIST"
    ELSE IF ~dirWritable THEN "EACCES"
    ELSE "Ok"

\* a gate that drops the error of ensure_exists and returns self
PropagateGateOk(n, r) ==
    IF r = "Ok" \/ n # "ensure_exists" THEN "Ok" ELSE "Err"

\* ensure_exists returns the result of create_pipe; the gates pass its error
\* on with `?` and return Ok(self) otherwise
Propagate(n, r) == IF r = "Ok" THEN "Ok" ELSE "Err"

\* create_pipe, and the return of the call that reached it
CreatePipe(p) ==
    /\ pc[p] = "mkfifo"
    /\ LET r == MkfifoResult
           st == Propagate(call[p].name, r)
       IN  /\ r = "Ok" => readers = 0 /\ writers = 0
           /\ fs' = IF r = "Ok" THEN "fifo" ELSE fs
           /\ buf' = IF r = "Ok" THEN <<>> ELSE buf
           /\ cycle' = IF r = "Ok" THEN FALSE ELSE cycle
           /\ Ret(p, call[p], st, IF st = "Ok" THEN "" ELSE r, <<>>, FALSE,
                  fs')
    /\ UNCHANGED <<content, dirWritable, readers, writers, fd, woken, todo,
                   acc, bg>>

\* Pipe::delete, up to the existence test
Delete(p) ==
    /\ pc[p] = "idle"
    /\ IF NeedsRemove
       THEN Goto(p, NewCall("delete", <<>>), "unlink")
       ELSE Ret(p, NewCall("delete", <<>>), "Ok", "", <<>>, FALSE, fs)
    /\ UNCHANGED <<fsVars, pipeVars, fd, woken, todo, acc, bg>>

\* outcome of remove_file(path)
UnlinkResult ==
    IF fs = "absent" THEN "ENOENT"
    ELSE IF fs = "dir" THEN "EISDIR"
    ELSE IF ~dirWritable THEN "EACCES"
    ELSE "Ok"

\* a remove_pipe whose removal never runs
FsAfterUnlinkKept(r) == fs

\* the entry at the path after remove_file
FsAfterUnlink(r) == IF r = "Ok" THEN "absent" ELSE fs

\* remove_pipe, and the return of delete.  A regular file that is still
\* open lives on without a name: its readers keep what it held.
RemovePipe(p) ==
    /\ pc[p] = "unlink"
    /\ LET r == UnlinkResult
           gone == r = "Ok" /\ fs = "file"
       IN  /\ fs' = FsAfterUnlink(r)
           /\ content' = IF r = "Ok" THEN <<>> ELSE content
           /\ fd' = [q \in Slots |->
                       IF gone /\ fd[q] = "file" THEN "orphan" ELSE fd[q]]
           /\ acc' = [q \in Slots |->
                        IF gone /\ fd[q] = "file" /\ pc[q] = "reading"
                        THEN content ELSE acc[q]]
           /\ bg' = [q \in Slots |->
                       IF gone /\ bg[q].fd = "file"
                       THEN [bg[q] EXCEPT !.fd = "orphan"] ELSE bg[q]]
           /\ Ret(p, call[p], IF r = "Ok" THEN "Ok" ELSE "Err",
                  IF r = "Ok" THEN "" ELSE r, <<>>, FALSE, fs')
    /\ UNCHANGED <<dirWritable, pipeVars, woken, todo>>

\* ------------------------------------------------------------ FIFO object
\* open of a FIFO returns at once when the other end is already there
ReadyAtOpen(peers) == peers > 0

\* slot p enters open; the slots waiting in open at the other end wake
Wake(p, ready, waiting) ==
    [q \in Slots |-> IF q = p THEN ready
                     ELSE IF pc[q] = waiting THEN TRUE
                     ELSE woken[q]]

SpaceLeft == PipeCap - Len(buf)
Min(a, b) == IF a < b THEN a ELSE b
Head2(d, k) == SubSeq(d, 1, k)
Tail2(d, k) == SubSeq(d, k + 1, Len(d))

\* the buffer of a FIFO with no open end is discarded
BufAfterClose(r, w, b) == IF r = 0 /\ w = 0 THEN <<>> ELSE b

\* write at offset 0 of a regular file
Overwrite(c, d) == d \o Tail2(c, Min(Len(d), Len(c)))

\* ------------------------------------------------------------------ Reader
\* a read that keeps only what the last read call returned
ReadAppendLast(a, b) == b

\* read_to_end: what a read call returns is appended to what was read
ReadAppend(a, b) == a \o b

\* a read that returns after the first read call that brought data
ReadCompleteFirst(a, b, w) == b = <<>> /\ (w = 0 \/ a # <<>>)

\* read_to_end stops at end of stream only: nothing buffered, no write end
ReadComplete(a, b, w) == b = <<>> /\ w = 0

\* what a read returns for the bytes it gathered from an open file
ReadResult(n, kind, bytes) ==
    IF kind = "dir"
    THEN [status |-> "Err", err |-> "EISDIR", val |-> <<>>]
    ELSE IF n \in ByteReadOps
    THEN [status |-> "Ok", err |-> "", val |-> bytes]
    ELSE LET d == Utf8Decode(bytes)
         IN  IF d.ok THEN [status |-> "Ok", err |-> "", val |-> d.chars]
             ELSE [status |-> "Err", err |-> "InvalidData", val |-> <<>>]

\* Reader::read, async_read, string, async_read_str: the open
OpenRead(p, n) ==
    /\ pc[p] = "idle"
    /\ IF fs = "absent"
       THEN /\ Ret(p, NewCall(n, <<>>), "Err", "ENOENT", <<>>, FALSE, fs)
            /\ UNCHANGED <<fd, readers, woken, acc>>
       ELSE /\ Goto(p, NewCall(n, <<>>),
                    IF fs = "fifo" THEN "open_r" ELSE "reading")
            /\ fd' = [fd EXCEPT ![p] = fs]
            /\ readers' = IF fs = "fifo" THEN readers + 1 ELSE readers
            /\ woken' = IF fs = "fifo"
                        THEN Wake(p, ReadyAtOpen(writers), "open_w")
                        ELSE woken
            /\ acc' = [acc EXCEPT ![p] = <<>>]
    /\ UNCHANGED <<fsVars, writers, buf, cycle, todo, bg>>

\* the open of the read end returns: a write end is or has been there
OpenReadDone(p) ==
    /\ pc[p] = "open_r"
    /\ woken[p]
    /\ pc' = [pc EXCEPT ![p] = "reading"]
    /\ UNCHANGED <<fsVars, pipeVars, call, fd, woken, todo, acc, res, bg>>

\* one read call of read_to_end, and at end of stream the close and the
\* return of the call
ReadStep(p) ==
    /\ pc[p] = "reading"
    /\ LET pipe == fd[p] = "fifo"
           done == ~pipe \/ ReadComplete(acc[p], buf, writers)
           bytes == IF fd[p] = "file" THEN content ELSE acc[p]
           out == ReadResult(call[p].name, fd[p], bytes)
       IN  /\ ~done => buf # <<>>
           /\ IF done
              THEN /\ Ret(p, call[p], out.status, out.err, out.val, FALSE, fs)
                   /\ fd' = [fd EXCEPT ![p] = "none"]
                   /\ acc' = [acc EXCEPT ![p] = <<>>]
                   /\ readers' = IF pipe THEN readers - 1 ELSE readers
                   /\ buf' = IF pipe
                             THEN BufAfterClose(readers - 1, writers, buf)
                             ELSE buf
              ELSE /\ acc' = [acc EXCEPT ![p] = ReadAppend(acc[p], buf)]
                   /\ buf' = <<>>
                   /\ UNCHANGED <<pc, call, res, fd, readers>>
    /\ UNCHANGED <<fsVars, writers, cycle, woken, todo, bg>>

\* ------------------------------------------------------------------ Writer
\* an open that creates for every write variant
CreateFlagAll(n) == TRUE

\* File::create opens with create, OpenOptions::create(false) without
CreateFlag(n) == n \in BlockingWriteOps

\* File::create truncates a regular file, the open of _write does not
TruncFlag(n) == n \in BlockingWriteOps

\* a writer whose file is never dropped
WriterEndsLeak(w) == w

\* the file is dropped when the write returns: its write end closes
WriterEnds(w) == w - 1

\* error of the open for writing, "" when it succeeds
OpenWriteError(n) ==
    IF fs = "dir" THEN "EISDIR"
    ELSE IF fs = "absent" /\ ~CreateFlag(n) THEN "ENOENT"
    ELSE IF fs = "absent" /\ ~dirWritable THEN "EACCES"
    ELSE ""

\* Writer::write, write_str, async_write, async_write_str: the open
OpenWrite(p, n, d) ==
    /\ pc[p] = "idle"
    /\ bg[p].fd = "none"
    /\ LET e == OpenWriteError(n)
           kind == IF fs = "absent" THEN "file" ELSE fs
       IN  IF e # ""
           THEN /\ Ret(p, NewCall(n, d), "Err", e, <<>>, FALSE, fs)
                /\ UNCHANGED <<fs, content, fd, writers, woken, todo>>
           ELSE /\ Goto(p, NewCall(n, d),
                        IF fs = "fifo" THEN "open_w" ELSE "writing")
                /\ fs' = kind
                /\ content' = IF fs = "absent" \/ (fs = "file" /\ TruncFlag(n))
                              THEN <<>> ELSE content
                /\ fd' = [fd EXCEPT ![p] = kind]
                /\ writers' = IF fs = "fifo" THEN writers + 1 ELSE writers
                /\ woken' = IF fs = "fifo"
                            THEN Wake(p, ReadyAtOpen(readers), "open_r")
                            ELSE woken
                /\ todo' = [todo EXCEPT ![p] = PayloadBytes(n, d)]
    /\ UNCHANGED <<dirWritable, readers, buf, cycle, acc, bg>>

\* the open of the write end returns: a read end is or has been there
OpenWriteDone(p) ==
    /\ pc[p] = "open_w"
    /\ woken[p]
    /\ pc' = [pc EXCEPT ![p] = "writing"]
    /\ UNCHANGED <<fsVars, pipeVars, call, fd, woken, todo, acc, res, bg>>

\* Writer::write, write_str: buffer.write_all(data), then the drop of the
\* file and the return.  On a FIFO the bytes go over as the buffer has room.
WriteAll(p) ==
    /\ pc[p] = "writing"
    /\ call[p].name \in BlockingWriteOps
    /\ LET pipe == fd[p] = "fifo"
           broken == pipe /\ todo[p] # <<>> /\ readers = 0
           done == ~pipe \/ todo[p] = <<>> \/ broken
           k == Min(SpaceLeft, Len(todo[p]))
       IN  /\ ~done => k > 0
           /\ IF done
              THEN /\ Ret(p, call[p], IF broken THEN "Err" ELSE "Ok",
                          IF broken THEN "EPIPE" ELSE "", <<>>, FALSE, fs)
                   /\ fd' = [fd EXCEPT ![p] = "none"]
                   /\ todo' = [todo EXCEPT ![p] = <<>>]
                   /\ writers' = IF pipe THEN WriterEnds(writers) ELSE writers
                   /\ cycle' = (cycle \/ pipe)
                   /\ buf' = IF pipe
                             THEN BufAfterClose(readers, WriterEnds(writers), buf)
                             ELSE buf
                   /\ content' = IF fd[p] = "file"
                                 THEN Overwrite(content, todo[p]) ELSE content
              ELSE /\ buf' = buf \o Head2(todo[p], k)
                   /\ todo' = [todo EXCEPT ![p] = Tail2(todo[p], k)]
                   /\ UNCHANGED <<pc, call, res, fd, writers, cycle, content>>
    /\ UNCHANGED <<fs, dirWritable, readers, woken, acc, bg>>

\* Writer::_write: file.write_all(data).await hands the bytes to a
\* background write and returns; with nothing to write the file is dropped
AsyncWriteAll(p) ==
    /\ pc[p] = "writing"
    /\ call[p].name \in AsyncWriteOps
    /\ LET pipe == fd[p] = "fifo"
           empty == todo[p] = <<>>
       IN  /\ Ret(p, call[p], "Ok", "", <<>>, FALSE, fs)
           /\ bg' = [bg EXCEPT ![p] =
                       IF empty THEN NoBg ELSE [fd |-> fd[p], todo |-> todo[p]]]
           /\ fd' = [fd EXCEPT ![p] = "none"]
           /\ todo' = [todo EXCEPT ![p] = <<>>]
           /\ writers' = IF pipe /\ empty THEN WriterEnds(writers) ELSE writers
           /\ cycle' = (cycle \/ (pipe /\ empty))
           /\ buf' = IF pipe /\ empty
                     THEN BufAfterClose(readers, WriterEnds(writers), buf)
                     ELSE buf
    /\ UNCHANGED <<fsVars, readers, woken, acc>>

\* the background write of an async write, and the close of the file when
\* it is over; its error, if any, has no caller to go to
BgWrite(p) ==
    /\ bg[p].fd # "none"
    /\ LET pipe == bg[p].fd = "fifo"
           broken == pipe /\ bg[p].todo # <<>> /\ readers = 0
           done == ~pipe \/ bg[p].todo = <<>> \/ broken
           k == Min(SpaceLeft, Len(bg[p].todo))
       IN  /\ ~done => k > 0
           /\ IF done
              THEN /\ bg' = [bg EXCEPT ![p] = NoBg]
                   /\ writers' = IF pipe THEN WriterEnds(writers) ELSE writers
                   /\ cycle' = (cycle \/ pipe)
                   /\ buf' = IF pipe
                             THEN BufAfterClose(readers, WriterEnds(writers), buf)
                             ELSE buf
                   /\ content' = IF bg[p].fd = "file"
                                 THEN Overwrite(content, bg[p].todo)
                                 ELSE content
              ELSE /\ buf' = buf \o Head2(bg[p].todo, k)
                   /\ bg' = [bg EXCEPT ![p].todo = Tail2(bg[p].todo, k)]
                   /\ UNCHANGED <<writers, cycle, content>>
    /\ UNCHANGED <<fs, dirWritable, readers, pc, call, fd, woken, todo, acc,
                   res>>

\* ----------------------------------------------------------- specifications
TypeOK ==
    /\ fs \in Kinds
    /\ dirWritable \in BOOLEAN
    /\ readers \in 0..4 /\ writers \in 0..4
    /\ Len(buf) <= PipeCap
    /\ \A p \in Slots :
         pc[p] \in {"idle", "mkfifo", "unlink", "open_r", "reading", "open_w",
                    "writing"}

InitSlots ==
    /\ readers = 0 /\ writers = 0 /\ buf = <<>> /\ cycle = FALSE
    /\ pc = [p \in Slots |-> "idle"]
    /\ call = [p \in Slots |-> NoCall]
    /\ fd = [p \in Slots |-> "none"]
    /\ woken = [p \in Slots |-> FALSE]
    /\ todo = [p \in Slots |-> <<>>]
    /\ acc = [p \in Slots |-> <<>>]
    /\ res = [p \in Slots |-> NoRes]
    /\ bg = [p \in Slots |-> NoBg]

\* The handshake of the tests: the FIFO exists, task t1 makes one Writer
\* call and task t2 one Reader call, concurrently.
InitIO ==
    /\ fs = "fifo" /\ content = <<>> /\ dirWritable = TRUE
    /\ InitSlots

WriterTask ==
    \/ \E n \in ByteWriteOps, d \in ByteSeqs :
         res["t1"].name = "none" /\ OpenWrite("t1", n, d)
    \/ \E n \in TextWriteOps, d \in Strings :
         res["t1"].name = "none" /\ OpenWrite("t1", n, d)
    \/ OpenWriteDone("t1")
    \/ WriteAll("t1")
    \/ AsyncWriteAll("t1")
    \/ BgWrite("t1")

ReaderTask ==
    \/ \E n \in ReadOps : res["t2"].name = "none" /\ OpenRead("t2", n)
    \/ OpenReadDone("t2")
    \/ ReadStep("t2")

NextIO == WriterTask \/ ReaderTask

SpecIO == InitIO /\ [][NextIO]_vars

\* the two tasks are spawned on a runtime that runs every task that can run
SpecIOFair == SpecIO /\ WF_vars(WriterTask) /\ WF_vars(ReaderTask)

\* The lifecycle of the path: one caller makes calls one after another,
\* from any entry at the path and any parent directory.
InitFs ==
    /\ fs \in Kinds
    /\ dirWritable \in BOOLEAN
    /\ content \in (IF fs = "file" THEN SmallBytes ELSE {<<>>})
    /\ InitSlots

NextFs ==
    \/ \E n \in ConstructOps : Construct("t1", n)
    \/ Exists("t1")
    \/ \E n \in EnsureOps : EnsureExists("t1", n)
    \/ CreatePipe("t1")
    \/ Delete("t1")
    \/ RemovePipe("t1")
    \/ \E n \in ReadOps : OpenRead("t1", n)
    \/ ReadStep("t1")
    \/ \E n \in ByteWriteOps, d \in SmallBytes : OpenWrite("t1", n, d)
    \/ \E n \in TextWriteOps, d \in SmallStrings : OpenWrite("t1", n, d)
    \/ WriteAll("t1")
    \/ AsyncWriteAll("t1")
    \/ BgWrite("t1")

SpecFs == InitFs /\ [][NextFs]_vars

\* Two writers and one reader on the FIFO: tasks t1 and t3 make one Writer
\* call each, with payloads that tell them apart, task t2 one byte read.
FirstPayloads == {<<65>>, <<65, 65>>}
SecondPayloads == {<<195>>, <<195, 169>>}
SecondTexts == {<<233>>}

WriterSteps(p) ==
    \/ OpenWriteDone(p)
    \/ WriteAll(p)
    \/ AsyncWriteAll(p)
    \/ BgWrite(p)

FirstWriter ==
    \/ \E n \in WriteOps, d \in FirstPayloads :
         res["t1"].name = "none" /\ OpenWrite("t1", n, d)
    \/ WriterSteps("t1")

SecondWriter ==
    \/ \E n \in ByteWriteOps, d \in SecondPayloads :
         res["t3"].name = "none" /\ OpenWrite("t3", n, d)
    \/ \E n \in TextWriteOps, d \in SecondTexts :
         res["t3"].name = "none" /\ OpenWrite("t3", n, d)
    \/ WriterSteps("t3")

ByteReader ==
    \/ \E n \in ByteReadOps : res["t2"].name = "none" /\ OpenRead("t2", n)
    \/ OpenReadDone("t2")
    \/ ReadStep("t2")

NextTwoWriters == FirstWriter \/ SecondWriter \/ ByteReader

SpecTwoWriters == InitIO /\ [][NextTwoWriters]_vars

\* Concurrent creation: the path has no entry, its directory allows
\* creation, and every task makes one ensure_exists or pipe_exists call.
InitEnsureRace ==
    /\ fs = "absent" /\ content = <<>> /\ dirWritable = TRUE
    /\ InitSlots

NextEnsureRace ==
    \E p \in Slots :
       \/ \E n \in EnsureOps : res[p].name = "none" /\ EnsureExists(p, n)
       \/ CreatePipe(p)

SpecEnsureRace == InitEnsureRace /\ [][NextEnsureRace]_vars

\* Concurrent deletion: the path holds a FIFO or a regular file, its
\* directory allows unlinking, and every task deletes its clone of the Pipe.
InitDeleteRace ==
    /\ fs \in {"fifo", "file"} /\ dirWritable = TRUE
    /\ content \in (IF fs = "file" THEN SmallBytes ELSE {<<>>})
    /\ InitSlots

NextDeleteRace ==
    \E p \in Slots :
       \/ res[p].name = "none" /\ Delete(p)
       \/ RemovePipe(p)

SpecDeleteRace == InitDeleteRace /\ [][NextDeleteRace]_vars

\* Deletion racing with the handshake: the FIFO exists, task t1 makes one
\* Writer call, task t2 one Reader call and task t3 deletes the Pipe.
Deleter ==
    \/ res["t3"].name = "none" /\ Delete("t3")
    \/ RemovePipe("t3")

NextDeleteDuringIO == WriterTask \/ ReaderTask \/ Deleter

SpecDeleteDuringIO == InitIO /\ [][NextDeleteDuringIO]_vars

\* ------------------------------------------------------------------ claims
Writer1 == IF res["t1"].name # "none" THEN res["t1"] ELSE call["t1"]

\* C1: with the FIFO in place, one byte write (write or async_write) and one
\* byte read (read or async_read) running concurrently: whenever the read
\* has returned, it returned Ok with exactly the bytes the writer was given.
C1_ByteRoundTrip ==
    LET r == res["t2"]
    IN  (r.name \in ByteReadOps /\ Writer1.name \notin TextWriteOps)
        => /\ r.status = "Ok"
           /\ Writer1.name \in ByteWriteOps
           /\ r.val = Writer1.data

C1_Witness ==
    LET r == res["t2"]
    IN  /\ r.name \in ByteReadOps /\ r.status = "Ok"
        /\ res["t1"].name \in ByteWriteOps
        /\ Len(r.val) >= 2 /\ r.val[1] # r.val[2]

\* C2: with the FIFO in place, one text write (write_str or async_write_str)
\* and one text read (string or async_read_str) running concurrently:
\* whenever the read has returned, it returned Ok with the string written.
C2_TextRoundTrip ==
    LET r == res["t2"]
    IN  (r.name \in TextReadOps /\ Writer1.name \in TextWriteOps)
        => /\ r.status = "Ok"
           /\ r.val = Writer1.data

C2_Witness ==
    LET r == res["t2"]
    IN  /\ r.name \in TextReadOps /\ r.status = "Ok"
        /\ res["t1"].name \in TextWriteOps
        /\ r.val = <<8364, 233>>

\* C3: with the FIFO in place and a writer task and a reader task started
\* on it, under fair scheduling both calls eventually return.
C3_BothReturn ==
    <>(res["t1"].status # "none" /\ res["t2"].status # "none")

C3_Witness ==
    /\ res["t1"].status = "Ok" /\ res["t2"].status = "Ok"
    /\ bg["t1"] = NoBg

\* C4: when ensure_exists has returned Ok and is called again with no other
\* call in between, the second call returns Ok and the entry at the path
\* keeps its kind: a FIFO is still a FIFO.
C4_EnsureTwice ==
    LET r == res["t1"]
    IN  (/\ r.name = "ensure_exists"
         /\ r.prev[1] = "ensure_exists" /\ r.prev[2] = "Ok")
        => /\ r.status = "Ok"
           /\ r.post = r.pre
           /\ (r.prev[3] \in {"absent", "fifo"} => r.post = "fifo")

C4_Witness ==
    LET r == res["t1"]
    IN  /\ r.name = "ensure_exists" /\ r.status = "Ok"
        /\ r.prev = <<"ensure_exists", "Ok", "absent">>
        /\ r.post = "fifo"

\* C5: delete called when the path has no entry returns Ok and leaves the
\* path without an entry.
C5_DeleteAbsent ==
    LET r == res["t1"]
    IN  (r.name = "delete" /\ r.pre = "absent")
        => r.status = "Ok" /\ r.post = "absent"

C5_Witness ==
    LET r == res["t1"]
    IN  r.name = "delete" /\ r.pre = "absent" /\ r.status = "Ok"

\* C6: an exists() that directly follows a delete that returned Ok returns
\* false, whatever was at the path before the delete.
C6_DeleteThenExists ==
    LET r == res["t1"]
    IN  (r.name = "exists" /\ r.prev[1] = "delete" /\ r.prev[2] = "Ok")
        => ~r.flag

C6_Witness ==
    LET r == res["t1"]
    IN  /\ r.name = "exists" /\ ~r.flag
        /\ r.prev = <<"delete", "Ok", "fifo">>

\* C7: Reader::pipe_exists or Writer::pipe_exists called when the path has
\* no entry and the location allows creation creates a FIFO and returns Ok,
\* and an exists() that directly follows it returns true.
C7_GateCreates ==
    LET r == res["t1"]
        gates == {"reader_pipe_exists", "writer_pipe_exists"}
    IN  /\ (r.name \in gates /\ r.pre = "absent" /\ dirWritable)
           => r.status = "Ok" /\ r.post = "fifo"
        /\ (/\ r.name = "exists" /\ r.prev[1] \in gates
            /\ r.prev[3] = "absent" /\ dirWritable)
           => r.flag

C7_Witness ==
    LET r == res["t1"]
    IN  /\ r.name = "exists" /\ r.flag
        /\ r.prev = <<"writer_pipe_exists", "Ok", "absent">>

\* C8: every call other than ensure_exists, the pipe_exists gates and delete
\* leaves the kind of the entry at the path as it found it.
C8_OthersKeepFs ==
    LET r == res["t1"]
    IN  r.name \notin (EnsureOps \cup {"delete", "none"}) => r.post = r.pre

\* C9: async_write and async_write_str called when the path has no entry
\* return an error and leave the path without an entry.
C9_AsyncWriteNoCreate ==
    LET r == res["t1"]
    IN  (r.name \in AsyncWriteOps /\ r.pre = "absent")
        => r.status = "Err" /\ r.post = "absent"

C9_Witness ==
    LET r == res["t1"]
    IN  /\ r.name \in AsyncWriteOps /\ r.pre = "absent"
        /\ r.status = "Err" /\ r.err = "ENOENT"

\* C10: a read-to-EOF call on the FIFO has returned only if a writer has
\* opened the FIFO and closed it again, and no write end is open when it
\* returns; so it has not returned while no writer ever opened.
C10_ReadAfterCycle ==
    res["t2"].status # "none"
    => cycle /\ writers = 0 /\ Writer1.name # "none"

C10_Witness ==
    /\ res["t2"].status = "Ok" /\ res["t2"].name = "async_read"
    /\ Len(res["t2"].val) = 2
    /\ cycle

\* byte payloads that are the UTF-8 form of no string: over the bytes used
\* here, a text is made of 'A' and of the pair 195 169 only
NotText(d) ==
    \A s \in SeqsUpTo({65, 233}, Len(d)) : Utf8EncodeFrom(s, 1) # d

\* C11: when the bytes written to the FIFO are not valid text, a text read
\* (string or async_read_str) that has returned has returned a decoding
\* error, never Ok; a byte read of the same data returns Ok with the exact
\* bytes.
C11_DecodingFailure ==
    LET r == res["t2"]
    IN  (/\ r.name \in ReadOps
         /\ Writer1.name \in ByteWriteOps
         /\ NotText(Writer1.data))
        => IF r.name \in TextReadOps
           THEN r.status = "Err" /\ r.err = "InvalidData" /\ r.val = <<>>
           ELSE r.status = "Ok" /\ r.val = Writer1.data

C11_Witness ==
    LET r == res["t2"]
    IN  /\ r.name \in TextReadOps /\ r.status = "Err"
        /\ res["t1"].name \in ByteWriteOps
        /\ res["t1"].data = <<65, 195>>

\* C12: ensure_exists called when the path holds an entry of any kind (FIFO,
\* regular file, directory) returns Ok and changes nothing: the entry keeps
\* its kind and its content.
C12_EnsureExisting ==
    [][(/\ res'["t1"] # res["t1"]
        /\ res'["t1"].name = "ensure_exists"
        /\ res'["t1"].pre # "absent")
       => /\ res'["t1"].status = "Ok"
          /\ fs' = fs /\ content' = content
          /\ res'["t1"].post = res'["t1"].pre]_vars

C12_Witness ==
    LET r == res["t1"]
    IN  /\ r.name = "ensure_exists" /\ r.pre = "file" /\ r.status = "Ok"
        /\ r.post = "file" /\ content = <<195>>

\* C13: when FIFO creation fails (the parent directory is missing or forbids
\* it), ensure_exists returns the error and the path has no entry
\* afterwards, and Reader::pipe_exists and Writer::pipe_exists return that
\* same error.
C13_CreationFails ==
    LET r == res["t1"]
    IN  (r.name \in EnsureOps /\ r.pre = "absent" /\ ~dirWritable)
        => r.status = "Err" /\ r.err = "EACCES" /\ r.post = "absent"

C13_Witness ==
    LET r == res["t1"]
    IN  /\ r.name = "reader_pipe_exists" /\ r.pre = "absent"
        /\ r.status = "Err" /\ r.err = "EACCES" /\ r.post = "absent"

\* C14: whenever a read or write variant has returned Ok, the entry at the
\* path when the call opened it was a FIFO.
C14_OkNeedsFifo ==
    LET r == res["t1"]
    IN  (r.name \in (ReadOps \cup WriteOps) /\ r.status = "Ok")
        => r.pre = "fifo"

\* C15: async_write and async_write_str have returned Ok only when every
\* byte of the data has been written to the FIFO.
C15_AsyncOkMeansWritten ==
    (res["t1"].name \in AsyncWriteOps /\ res["t1"].status = "Ok")
    => bg["t1"] = NoBg

\* the call of a writer task, in progress or returned
WriterOf(p) == IF res[p].name # "none" THEN res[p] ELSE call[p]
Started(p) == WriterOf(p).name # "none"
Sent(p) == PayloadBytes(WriterOf(p).name, WriterOf(p).data)

\* v is a and b shuffled together, each in its own order
RECURSIVE IsMerge(_, _, _)
IsMerge(v, a, b) ==
    IF v = <<>> THEN a = <<>> /\ b = <<>>
    ELSE \/ a # <<>> /\ Head(a) = Head(v) /\ IsMerge(Tail(v), Tail(a), b)
         \/ b # <<>> /\ Head(b) = Head(v) /\ IsMerge(Tail(v), a, Tail(b))

\* C16, as claimed: with two Writer calls and one Reader call on the FIFO,
\* the read returns the bytes of exactly one writer's session and no byte of
\* the other.
C16_OneSession ==
    LET r == res["t2"]
    IN  r.status # "none"
        => /\ r.status = "Ok"
           /\ \/ Started("t1") /\ r.val = Sent("t1")
              \/ Started("t3") /\ r.val = Sent("t3")

\* C16, amended: the read returns Ok with the whole payload of one writer,
\* or, when the sessions overlap or follow each other before the reader has
\* seen end of stream, with the whole payloads of both writers, each in its
\* own order; it never returns part of a session.
C16_WholeSessions ==
    LET r == res["t2"]
    IN  r.status # "none"
        => /\ r.status = "Ok"
           /\ \/ Started("t1") /\ r.val = Sent("t1")
              \/ Started("t3") /\ r.val = Sent("t3")
              \/ /\ Started("t1") /\ Started("t3")
                 /\ IsMerge(r.val, Sent("t1"), Sent("t3"))

C16_Witness ==
    LET r == res["t2"]
    IN  /\ r.status = "Ok"
        /\ r.val = <<65, 65, 195, 169>>

\* C17: when ensure_exists / pipe_exists calls for the same initially absent
\* path run concurrently, every one of them that has returned has returned
\* Ok, and a FIFO is at the path.
C17_AllEnsureOk ==
    \A p \in Slots :
       res[p].status # "none" => res[p].status = "Ok" /\ fs = "fifo"

\* C18: when clones of a Pipe for the same existing path are deleted
\* concurrently, every delete that has returned has returned Ok, and the
\* path has no entry.
C18_AllDeleteOk ==
    \A p \in Slots :
       res[p].status # "none" => res[p].status = "Ok" /\ fs = "absent"

\* C19: a delete that runs after both the reader call and the writer call
\* have opened the FIFO does not disturb the transfer: the delete returns
\* Ok, the writer returns Ok and the reader returns what a read of exactly
\* the written bytes returns.  A delete that runs before the writer's open
\* leaves a reader that is already in its open blocked there, with no FIFO
\* at the path and no write end.
C19_DeleteDuringTransfer ==
    LET r == WriterOf("t2")
        w == WriterOf("t1")
        out == ReadResult(r.name, "fifo", Sent("t1"))
    IN  /\ (res["t2"].status # "none" /\ r.pre = "fifo")
           => /\ w.pre = "fifo"
              /\ res["t1"].status = "Ok"
              /\ r.status = out.status /\ r.val = out.val
              /\ (r.name \in ByteReadOps
                  => r.status = "Ok" /\ r.val = Sent("t1"))
        /\ res["t3"].status # "none" => res["t3"].status = "Ok"
        /\ (r.pre = "fifo" /\ Started("t1") /\ w.pre # "fifo")
           => /\ res["t2"].status = "none"
              /\ pc["t2"] = "open_r"
              /\ fs # "fifo" /\ writers = 0

C19_Witness ==
    LET r == res["t2"]
    IN  /\ r.name = "async_read" /\ r.status = "Ok"
        /\ r.pre = "fifo" /\ r.post = "absent"
        /\ res["t1"].name = "async_write" /\ res["t1"].pre = "fifo"
        /\ res["t1"].status = "Ok"
        /\ r.val = <<195, 65>>
        /\ res["t3"].status = "Ok" /\ res["t3"].pre = "fifo"

\* the second case of C19 is reached: the delete ran first, the writer's open
\* failed, the reader is still in its open
C19_BlockedReader ==
    /\ pc["t2"] = "open_r" /\ call["t2"].pre = "fifo"
    /\ res["t3"].status = "Ok"
    /\ res["t1"].name = "async_write" /\ res["t1"].err = "ENOENT"

====
